---- MODULE Spec2Model ----
(***************************************************************************)
(* The encrypted-credential lifecycle of the alliance manager: the         *)
(* /api/api-keys routes (link, unlink), the access checks they make, the   *)
(* credential cipher and the upstream key validator.                       *)
(*                                                                         *)
(* Reading of the platform: the cipher calls crypto.createCipherGCM and     *)
(* crypto.createDecipherGCM.  Node's crypto module defines neither (it has *)
(* createCipheriv / createDecipheriv), so on the stock runtime both calls  *)
(* throw a TypeError inside the cipher's try block.  The cipher is         *)
(* modelled on both runtimes: "stock", and "gcm", a crypto module that     *)
(* provides the two constructors as the AES-256-GCM cipher their name and  *)
(* arguments describe.  The routes are analysed on the "gcm" runtime: on   *)
(* the stock one no key can be encrypted, so no link ever stores anything. *)
(* A prisma call either completes or rejects (the handler's catch answers  *)
(* 500); prisma.user.findFirst without orderBy may return any matching row.*)
(***************************************************************************)
EXTENDS Integers, Sequences, FiniteSets, TLC

\* ------------------------------------------------------------------ bounds
\* Requests served in one behaviour.
MaxRequests == 2
\* Distinct well-formed secrets the callers submit.
NumKeys == 2

\* Clock ticks (milliseconds) the rate limiter is observed for.
MaxTime == 3
\* Requests that reach checkRateLimit.
MaxArrivals == 3

\* Sessions created by logins, and requests the auth routes serve.
MaxSessions == 3
MaxAuthRequests == 3

\* Requests the frontend is followed for.
MaxSent == 5

\* ------------------------------------------------------- program constants
\* process.env.RATE_LIMIT_WINDOW_MS and RATE_LIMIT_MAX_REQUESTS, as configured.
RateLimitWindowMs == 3
RateLimitMaxRequests == 2
\* Joi: apiKey min(20).max(200); validatePnWApiKey: apiKey.length < 20.
MinKeyLength == 20
MaxKeyLength == 200
\* process.env.ENCRYPTION_KEY, the process-wide master key.
MasterKey == 7

\* ------------------------------------------------------------------ values
\* A secret is a string, modelled as the sequence of its characters (0..15).
Key(i) == [j \in 1..MinKeyLength |-> (3 * i + j) % 16]
ApiKeys == {Key(i) : i \in 1..NumKeys}
\* "short": fewer than MinKeyLength characters.
ShortKey == <<5, 8, 15, 2, 4>>
\* What a request body may carry as apiKey.
SubmittedKeys == ApiKeys \cup {ShortKey}

\* null in a nullable column.
Null == <<>>
NoNation == 0

\* The nation the upstream reports for a key (nations(id: [self])).
NationIdOf(apiKey) ==
    40 + (IF apiKey \in ApiKeys THEN CHOOSE i \in 1..NumKeys : Key(i) = apiKey ELSE 0)
NationNameOf(apiKey) == <<"nation", NationIdOf(apiKey)>>

\* crypto.randomBytes: the values a draw may produce.
Salts == {1, 2}
IVs == {1}

\* ------------------------------------------------------- credential cipher
\* pbkdf2Sync(masterKey, salt, 100000, 32, 'sha512'): a key that is a function
\* of exactly the master key and the salt.
deriveKey(masterKey, salt) == <<masterKey, salt>>

\* The cipher's keystream under (key, iv), one value per position.
KeyStream(key, iv, j) == (key[1] * 7 + key[2] * 5 + iv * 3 + j) % 16

\* cipher.update(plaintext) + cipher.final().
GcmEncrypt(key, iv, plaintext) ==
    [j \in 1..Len(plaintext) |-> (plaintext[j] + KeyStream(key, iv, j)) % 16]

\* decipher.update(ciphertext) + decipher.final(), once the tag has verified.
GcmDecrypt(key, iv, ciphertext) ==
    [j \in 1..Len(ciphertext) |-> (ciphertext[j] + 16 - KeyStream(key, iv, j)) % 16]

\* cipher.getAuthTag(): authenticates key, iv, additional data and ciphertext.
GcmTag(key, iv, aad, ciphertext) == <<key, iv, aad, ciphertext>>

\* The crypto module the process runs on: with or without createCipherGCM and
\* createDecipherGCM.
GcmRuntime == "gcm"
StockRuntime == "stock"
Runtimes == {GcmRuntime, StockRuntime}

\* process.env.ENCRYPTION_KEY unset (or empty): `!masterKey`.
NoMasterKey == 0

\* The cipher's catch: throw new Error('Failed to encrypt API key').
EncryptFailed == [ok |-> FALSE, data |-> <<>>]

\* encryptApiKey(plaintext, userSalt) on a runtime and under a master key; iv
\* is its crypto.randomBytes draw.  The result is the string
\* salt:iv:tag:ciphertext, modelled as its four fields, or a throw (ok = FALSE).
encryptUnder(runtime, masterKey, plaintext, userSalt, iv) ==
    IF masterKey = NoMasterKey THEN EncryptFailed
    ELSE IF runtime # GcmRuntime THEN EncryptFailed
    ELSE LET key == deriveKey(masterKey, userSalt)
             ciphertext == GcmEncrypt(key, iv, plaintext)
         IN  [ok |-> TRUE,
              data |-> <<userSalt, iv, GcmTag(key, iv, userSalt, ciphertext), ciphertext>>]

\* decryptApiKey(encryptedData): the plaintext, or a throw (ok = FALSE).
DecryptFailed == [ok |-> FALSE, plaintext |-> <<>>]

\* Variant: the plaintext returned without decipher.setAuthTag / final()
\* verifying the tag.
decryptUnverified(runtime, masterKey, encryptedData) ==
    IF masterKey = NoMasterKey \/ Len(encryptedData) # 4 \/ runtime # GcmRuntime
    THEN DecryptFailed
    ELSE [ok |-> TRUE,
          plaintext |-> GcmDecrypt(deriveKey(masterKey, encryptedData[1]),
                                   encryptedData[2], encryptedData[4])]

decryptUnder(runtime, masterKey, encryptedData) ==
    IF masterKey = NoMasterKey THEN DecryptFailed
    ELSE IF Len(encryptedData) # 4 THEN DecryptFailed
    ELSE IF runtime # GcmRuntime THEN DecryptFailed
    ELSE LET salt == encryptedData[1]
             iv == encryptedData[2]
             tag == encryptedData[3]
             ciphertext == encryptedData[4]
             key == deriveKey(masterKey, salt)
         IN  IF tag # GcmTag(key, iv, salt, ciphertext) THEN DecryptFailed
             ELSE [ok |-> TRUE, plaintext |-> GcmDecrypt(key, iv, ciphertext)]

\* The cipher as the routes use it: the process's master key, the runtime
\* they are analysed on.
encryptApiKey(plaintext, userSalt, iv) ==
    encryptUnder(GcmRuntime, MasterKey, plaintext, userSalt, iv).data
decryptApiKey(encryptedData) == decryptUnder(GcmRuntime, MasterKey, encryptedData)

\* ------------------------------------------------------ external validator
\* What one POST to the upstream GraphQL endpoint can produce: a body with
\* data, a body with errors, or a rejected promise (axios throws).  A message
\* is the set of the known phrases it contains (String.includes).
Upstream(t, message, code, status, nation) ==
    [t |-> t, message |-> message, code |-> code, status |-> status, nation |-> nation]
UpstreamResponses ==
    { Upstream("data", {}, "", 200, TRUE),
      Upstream("data", {}, "", 200, FALSE),
      Upstream("errors", {"Invalid API key"}, "", 200, FALSE),
      Upstream("errors", {"Unauthorized"}, "", 200, FALSE),
      Upstream("errors", {"Rate limit exceeded"}, "", 200, FALSE),
      Upstream("errors", {}, "", 200, FALSE),
      Upstream("throw", {}, "ENOTFOUND", 0, FALSE),
      Upstream("throw", {}, "ECONNREFUSED", 0, FALSE),
      Upstream("throw", {}, "ECONNABORTED", 0, FALSE),
      Upstream("throw", {}, "TIMEOUT", 0, FALSE),
      Upstream("throw", {}, "ECONNRESET", 0, FALSE),
      Upstream("throw", {}, "ETIMEDOUT", 0, FALSE),
      Upstream("throw", {}, "ERR_BAD_REQUEST", 401, FALSE),
      Upstream("throw", {}, "ERR_BAD_REQUEST", 429, FALSE),
      Upstream("throw", {}, "ERR_BAD_RESPONSE", 500, FALSE),
      Upstream("throw", {}, "ERR_BAD_REQUEST", 404, FALSE) }

\* The upstream answers the handlers are run against: valid, rejected, timed out.
HandlerResponses ==
    { Upstream("data", {}, "", 200, TRUE),
      Upstream("errors", {"Invalid API key"}, "", 200, FALSE),
      Upstream("throw", {}, "ECONNABORTED", 0, FALSE) }

Invalid(error) ==
    [isValid |-> FALSE, nationId |-> NoNation, nationName |-> Null, error |-> error]
NoValidation == Invalid("")

\* Variant: only `!apiKey`, the empty string, is refused.
EmptyRejected(apiKey) == Len(apiKey) = 0

\* Whether validatePnWApiKey answers before any request is made.
FormatRejected(apiKey) == Len(apiKey) < MinKeyLength

\* The requests validatePnWApiKey(apiKey) makes to the upstream: its one
\* axios.post, unless the format check has answered.
ValidationQueries(apiKey) == IF FormatRejected(apiKey) THEN 0 ELSE 1

\* validatePnWApiKey(apiKey), given what the upstream answers to its one POST.
validatePnWApiKey(apiKey, response) ==
    IF FormatRejected(apiKey) THEN Invalid("Invalid API key format")
    ELSE IF response.t = "errors" THEN
        IF "Invalid API key" \in response.message \/ "Unauthorized" \in response.message
        THEN Invalid("Invalid or expired API key")
        ELSE IF "Rate limit exceeded" \in response.message
        THEN Invalid("API rate limit exceeded, please try again later")
        ELSE Invalid("API error")
    ELSE IF response.t = "data" THEN
        IF ~response.nation THEN Invalid("Unable to retrieve nation data")
        ELSE [isValid |-> TRUE, nationId |-> NationIdOf(apiKey),
              nationName |-> NationNameOf(apiKey), error |-> ""]
    ELSE IF response.code \in {"ENOTFOUND", "ECONNREFUSED"}
        THEN Invalid("Unable to connect to Politics and War API")
    ELSE IF response.code \in {"TIMEOUT", "ECONNABORTED"}
        THEN Invalid("Request timeout - Politics and War API is slow to respond")
    ELSE IF response.status = 429
        THEN Invalid("Rate limit exceeded, please try again later")
    ELSE IF response.status >= 500
        THEN Invalid("Politics and War API is currently unavailable")
    ELSE Invalid("Failed to validate API key")

\* linkApiKeySchema.validate(req.body): apiKey is a string of 20..200 characters.
\* (keyType and allianceSlug are drawn well-formed.)
JoiAccepts(apiKey) == Len(apiKey) >= MinKeyLength /\ Len(apiKey) <= MaxKeyLength

\* -------------------------------------------------------------- usage check
\* What the upstream answers to the `me { requests max_requests }` query: data
\* (a missing or zero field is 0 here), a body with errors and no data, or a
\* rejected promise.
UsageData(requests, max_requests) ==
    [t |-> "data", requests |-> requests, max_requests |-> max_requests]
UsageFailure(t) == [t |-> t, requests |-> 0, max_requests |-> 0]

\* `me.max_requests || 2000`.
DefaultMaxRequests == 2000
\* `percentageUsed > 80`.
NearLimitPercent == 80

\* (requestsUsed / maxRequests) * 100, kept as the fraction num / den.  (In
\* doubles the quotient is rounded before the product; for the counts drawn
\* here the rounded value compares with 80 as the exact one does.)
Percentage(requestsUsed, maxRequests) == [num |-> requestsUsed * 100, den |-> maxRequests]

\* Variant: 80 % itself counts as near the limit.
AtOrNearLimit(percentageUsed) ==
    percentageUsed.num >= NearLimitPercent * percentageUsed.den

\* `percentageUsed > 80`.
NearLimit(percentageUsed) ==
    percentageUsed.num > NearLimitPercent * percentageUsed.den

NoRateLimit ==
    [requestsUsed |-> 0, maxRequests |-> 0, percentageUsed |-> Percentage(0, 1),
     isNearLimit |-> FALSE]

\* checkApiKeyRateLimit(apiKey), given the upstream's answer: the snapshot, or
\* a throw (ok = FALSE) from its catch.
checkApiKeyRateLimit(response) ==
    IF response.t # "data" THEN [ok |-> FALSE, rateLimit |-> NoRateLimit]
    ELSE LET requestsUsed == response.requests
             maxRequests == IF response.max_requests = 0 THEN DefaultMaxRequests
                            ELSE response.max_requests
             percentageUsed == Percentage(requestsUsed, maxRequests)
         IN  [ok |-> TRUE,
              rateLimit |-> [requestsUsed |-> requestsUsed, maxRequests |-> maxRequests,
                             percentageUsed |-> percentageUsed,
                             isNearLimit |-> NearLimit(percentageUsed)]]

\* The usage answers the status handler is run against.
HandlerUsage == {UsageData(10, 2000), UsageFailure("throw")}

\* ------------------------------------------------------------------ masking
\* '*'
Star == 42
VisibleChars == 4
Repeat(c, n) == [j \in 1..n |-> c]
Max(a, b) == IF a >= b THEN a ELSE b

\* Variant: the data returned as it is.
Unmasked(data, visibleChars) == data

\* maskSensitiveData(data, visibleChars).
maskSensitiveData(data, visibleChars) ==
    IF Len(data) <= visibleChars * 2
    THEN Repeat(Star, IF Len(data) = 0 THEN 8 ELSE Len(data))
    ELSE SubSeq(data, 1, visibleChars)
            \o Repeat(Star, Max(4, Len(data) - visibleChars * 2))
            \o SubSeq(data, Len(data) - visibleChars + 1, Len(data))

\* ---------------------------------------------------------------- log lines
\* A log line is the text console.error / console.warn writes, modelled as a
\* sequence of characters: secrets use 0..15, other text uses larger codes.
\* `${PNW_API_BASE_URL}?api_key=${encodeURIComponent(apiKey)}`: the characters
\* of a key are unreserved, so encodeURIComponent leaves them as they are.
RequestUrl(apiKey) == <<104, 116, 116, 112, 63, 61>> \o apiKey

\* console.error('PnW API validation error:', error): the message and the
\* inspected AxiosError, whose config.url is the request's URL.
ValidationErrorLine(apiKey) == <<80, 110, 87, 58>> \o RequestUrl(apiKey)

\* console.error('... error:', error) in a handler's catch: the message and
\* an Error that carries a message only.
HandlerErrorLine == <<69, 114, 114, 58>>

\* What validatePnWApiKey(apiKey) logs, given what the upstream answers: its
\* catch logs the rejection of axios.post; nothing else is logged.
ValidationLog(apiKey, response) ==
    IF ~FormatRejected(apiKey) /\ response.t = "throw"
    THEN <<ValidationErrorLine(apiKey)>>
    ELSE <<>>

\* ------------------------------------------------------------------- state
VARIABLES
    user,             \* users table: id -> [pnwApiKey, pnwNationId, pnwNationName]
    systemAdmin,      \* system_admins table: the user ids that have a row
    alliance,         \* alliances table: the route slugs that exist
    allianceManager,  \* alliance_managers table: id -> [userId, allianceId, role, isActive, managerApiKey]
    auditLog,         \* audit_logs table, in insertion order
    req,              \* the requests being served: slot -> the handler's locals and response
    nreq,             \* requests received so far
    budget,           \* requests the behaviour serves
    linked,           \* history: owner -> the secret of its last link answered 200 since its last unlink
    lastPut,          \* history: owner -> slot of the request whose credential write landed last
    call,             \* the last direct call of a utility function: its arguments and result
    limiter,          \* checkRateLimit: the rate_limits table, the clock, the invocations in flight
    auth,             \* the auth routes: the user_sessions table, the JWTs issued, the request served
    client            \* the frontend's auth store and axios instance: token, pending calls

\* The credential service's own state.
service == <<user, systemAdmin, alliance, allianceManager, auditLog, req, nreq, budget, linked, lastPut>>
vars == <<service, call, limiter, auth, client>>

\* The tables the credential routes only read (and the behaviour's budget; the
\* routes make no direct call).
fixed == <<systemAdmin, alliance, budget, call, limiter, auth, client>>
grants == <<fixed, allianceManager>>

Anonymous == "anon"
NoManager == "none"
NoSlug == ""

UserRow(apiKey, nationId, nationName) ==
    [pnwApiKey |-> apiKey, pnwNationId |-> nationId, pnwNationName |-> nationName]
ManagerRow(userId, allianceId, role, isActive) ==
    [userId |-> userId, allianceId |-> allianceId, role |-> role,
     isActive |-> isActive, managerApiKey |-> Null]

\* Seeded databases (seed.ts writes users, system_admins, alliances, alliance_managers).
\*   staff: u1 has no grant; u2 is an active "viewer" manager of a1 and holds an
\*          inactive grant for a2.
\*   board: u3 is an active "admin" manager of a1; u4 is a system admin with no
\*          manager row.
SeedStaff ==
    [users |-> {"u1", "u2"}, admins |-> {}, alliances |-> {"a1", "a2"},
     managers |-> [m \in {"m1", "m3"} |->
        IF m = "m1" THEN ManagerRow("u2", "a1", "viewer", TRUE)
                    ELSE ManagerRow("u2", "a2", "admin", FALSE)]]
SeedBoard ==
    [users |-> {"u3", "u4"}, admins |-> {"u4"}, alliances |-> {"a1", "a2"},
     managers |-> [m \in {"m2"} |-> ManagerRow("u3", "a1", "admin", TRUE)]]
Seeds == {SeedStaff, SeedBoard}

\* Slugs a request may name: the alliances of the seeds and one that does not exist.
Slugs == {"a1", "a2", "zz"}

Owners == DOMAIN user \cup DOMAIN allianceManager

\* No utility function has been called directly.
NoCall == [fn |-> "none"]

\* checkRateLimit before any request: no rate_limits row, the clock at 0, no
\* invocation in flight, nothing passed on.
IdleLimiter ==
    [rows |-> {}, now |-> 0, inflight |-> [s \in {1, 2} |-> [pc |-> "idle"]],
     arrivals |-> 0, passed |-> <<>>, refused |-> <<>>]

\* The auth routes before any login: no session, no JWT issued, no request.
IdleAuth ==
    [userSession |-> <<>>, issued |-> {}, invalidated |-> {},
     request |-> [pc |-> "idle"], served |-> 0]

\* The frontend as loaded with a token in its store: nothing pending.
IdleClient ==
    [token |-> TRUE, chains |-> <<>>, navigating |-> FALSE, unloaded |-> FALSE,
     asked |-> 0, sent |-> 0, refreshes |-> 0, retries |-> 0, logouts |-> 0,
     answers |-> {}]

\* A handler's locals.  pc is the await the handler is suspended at.
IdleRequest ==
    [route |-> "none", caller |-> Anonymous, apiKey |-> Null,
     keyType |-> "", allianceSlug |-> NoSlug, bodySlug |-> NoSlug,
     pc |-> "idle", sent |-> FALSE, validation |-> NoValidation,
     authz |-> "none", manager |-> NoManager, encryptedApiKey |-> Null,
     wrote |-> FALSE, status |-> 0, error |-> "",
     queries |-> 0, entries |-> <<>>, logged |-> <<>>]

InitTables(seed) ==
    /\ user = [u \in seed.users |-> UserRow(Null, NoNation, Null)]
    /\ systemAdmin = seed.admins
    /\ alliance = seed.alliances
    /\ allianceManager = seed.managers
    /\ auditLog = <<>>
    /\ nreq = 0
    /\ linked = [o \in seed.users \cup DOMAIN seed.managers |-> Null]
    /\ lastPut = [o \in seed.users \cup DOMAIN seed.managers |-> 0]
    /\ call = NoCall
    /\ limiter = IdleLimiter
    /\ auth = IdleAuth
    /\ client = IdleClient

\* One request is served at a time.
Init ==
    /\ \E seed \in Seeds : InitTables(seed)
    /\ req = [r \in {1} |-> IdleRequest]
    /\ budget = MaxRequests

\* The same, one request longer.
InitLong ==
    /\ \E seed \in Seeds : InitTables(seed)
    /\ req = [r \in {1} |-> IdleRequest]
    /\ budget = MaxRequests + 1

\* Two requests, one per slot, are served concurrently: their awaits interleave.
InitConcurrent ==
    /\ InitTables(SeedBoard)
    /\ req = [r \in {1, 2} |-> IdleRequest]
    /\ budget = 2

\* The key an owner links in the stocked database below.
HeldKey(o) == IF o = "u1" THEN Key(1) ELSE Key(NumKeys)

\* The staff database, either fresh or stocked: earlier links have stored a
\* personal key for every user and a manager key for every active grant (each
\* the ciphertext of a key the validator accepted, with the nation it reported).
InitStored ==
    /\ \E stocked \in BOOLEAN :
        LET held(o) == IF stocked THEN encryptApiKey(HeldKey(o), 1, 1) ELSE Null
            valid(o) == validatePnWApiKey(HeldKey(o), Upstream("data", {}, "", 200, TRUE))
        IN  /\ user = [u \in SeedStaff.users |->
                    IF stocked
                    THEN UserRow(held(u), valid(u).nationId, valid(u).nationName)
                    ELSE UserRow(Null, NoNation, Null)]
            /\ allianceManager = [m \in DOMAIN SeedStaff.managers |->
                    [SeedStaff.managers[m] EXCEPT !.managerApiKey =
                        IF SeedStaff.managers[m].isActive THEN held(m) ELSE Null]]
            /\ linked = [o \in SeedStaff.users \cup DOMAIN SeedStaff.managers |->
                    IF stocked /\ (o \in SeedStaff.users \/ SeedStaff.managers[o].isActive)
                    THEN HeldKey(o) ELSE Null]
    /\ systemAdmin = SeedStaff.admins
    /\ alliance = SeedStaff.alliances
    /\ auditLog = <<>>
    /\ nreq = 0
    /\ lastPut = [o \in SeedStaff.users \cup DOMAIN SeedStaff.managers |-> 0]
    /\ req = [r \in {1} |-> IdleRequest]
    /\ budget = MaxRequests
    /\ call = NoCall
    /\ limiter = IdleLimiter
    /\ auth = IdleAuth
    /\ client = IdleClient

\* ------------------------------------------------------------ access checks
\* JWT strategy: isSystemAdmin: !!user.systemAdmin.
IsSystemAdmin(u) == u \in systemAdmin

\* JWT strategy: user.allianceManagers, every grant row of the user (active or not).
SessionManagers(u) == {m \in DOMAIN allianceManager : allianceManager[m].userId = u}

\* prisma.allianceManager.findFirst({ userId, allianceId, isActive: true }).
FindActiveManager(u, allianceId) ==
    LET found == {m \in DOMAIN allianceManager :
                    /\ allianceManager[m].userId = u
                    /\ allianceManager[m].allianceId = allianceId
                    /\ allianceManager[m].isActive}
    IN  IF found = {} THEN NoManager ELSE CHOOSE m \in found : TRUE

\* The handlers' test `!allianceManager && !user.isSystemAdmin` (403 when TRUE).
ManagerCheckDenies(u, manager) == manager = NoManager /\ ~IsSystemAdmin(u)

\* req.params of DELETE /alliance/:slug: the route names its parameter `slug`,
\* so req.params.allianceSlug is undefined.
DeleteAllianceParams(slug) == [slug |-> slug, allianceSlug |-> NoSlug]

\* requireAllianceManager, after requireAuth: 0 when it calls next(), else the status.
requireAllianceManager(u, params, bodySlug) ==
    LET allianceSlug == IF params.allianceSlug # NoSlug THEN params.allianceSlug ELSE bodySlug
    IN  IF allianceSlug = NoSlug THEN 400
        ELSE IF IsSystemAdmin(u) THEN 0
        ELSE IF \E m \in SessionManagers(u) :
                    allianceManager[m].allianceId = allianceSlug /\ allianceManager[m].isActive
             THEN 0
        ELSE 403

\* ----------------------------------------------------------------- handlers
NoUser == "nobody"

\* res.status(status).json({ error }) or res.json(...): the handler has answered.
Respond(q, status, error) == [q EXCEPT !.pc = "done", !.status = status, !.error = error]

CanAccept(r) == req[r].pc \in {"idle", "done"} /\ nreq < budget

\* Variant: the link handler without its `!validation.isValid` test.
ValidationSkipped(validation) == TRUE

\* The link handler's test `!validation.isValid` passes the request on when FALSE.
ValidationPasses(validation) == validation.isValid

\* What the link handler compares the submitted key with: the decrypted key of
\* the row findFirst returned (a failed decryption is ignored).
SameAsExisting(existing, apiKey) ==
    /\ existing # NoUser
    /\ user[existing].pnwApiKey # Null
    /\ decryptApiKey(user[existing].pnwApiKey).ok
    /\ decryptApiKey(user[existing].pnwApiKey).plaintext = apiKey

\* prisma.user.findFirst({ where: { pnwApiKey: { not: null } } }): some such row, or none.
FindFirstKeyHolder ==
    LET holders == {u \in DOMAIN user : user[u].pnwApiKey # Null}
    IN  IF holders = {} THEN {NoUser} ELSE holders

\* Variant: the nation columns written only while they are still empty, as a
\* separate conditional update would.
LinkedUserRowPiecewise(row, encryptedApiKey, validation) ==
    [row EXCEPT !.pnwApiKey = encryptedApiKey,
                !.pnwNationId = IF @ = NoNation THEN validation.nationId ELSE @,
                !.pnwNationName = IF @ = Null THEN validation.nationName ELSE @]

\* data of prisma.user.update in the link handler: the three columns in one statement.
LinkedUserRow(row, encryptedApiKey, validation) ==
    [row EXCEPT !.pnwApiKey = encryptedApiKey,
                !.pnwNationId = validation.nationId,
                !.pnwNationName = validation.nationName]

\* data of prisma.user.update in DELETE /personal.
UnlinkedUserRow(row) ==
    [row EXCEPT !.pnwApiKey = Null, !.pnwNationId = NoNation, !.pnwNationName = Null]

AuditEntry(userId, action, resource, resourceId, allianceId, validation, hadApiKey) ==
    [userId |-> userId, action |-> action, resource |-> resource,
     resourceId |-> resourceId, allianceId |-> allianceId,
     nationId |-> validation.nationId, nationName |-> validation.nationName,
     hadApiKey |-> hadApiKey]

\* The owner whose credential a request's write is aimed at (NoUser: none).
Target(q) ==
    IF q.route = "link" /\ q.keyType = "personal" THEN q.caller
    ELSE IF q.route = "unlinkPersonal" THEN q.caller
    ELSE IF q.manager # NoManager THEN q.manager
    ELSE NoUser

\* Variant: POST /link handing the body to the duplicate check without the
\* validatePnWApiKey call.
PostLinkUnvalidated(r) ==
    /\ CanAccept(r)
    /\ \E caller \in DOMAIN user \cup {Anonymous}, apiKey \in SubmittedKeys,
          keyType \in {"personal", "alliance"}, slug \in Slugs \cup {NoSlug} :
        /\ (keyType = "alliance") <=> (slug # NoSlug)
        /\ LET arrived == [IdleRequest EXCEPT !.route = "link", !.caller = caller]
               q == [arrived EXCEPT !.apiKey = apiKey, !.keyType = keyType,
                                    !.allianceSlug = slug]
           IN  req' = [req EXCEPT ![r] =
                    IF caller = Anonymous
                    THEN Respond(arrived, 401, "Authentication required")
                    ELSE IF ~JoiAccepts(apiKey) THEN Respond(q, 400, "Validation error")
                    ELSE [q EXCEPT !.pc = "dupcheck"]]
    /\ nreq' = nreq + 1
    /\ UNCHANGED <<user, grants, auditLog, linked, lastPut>>

\* POST /link arrives: requireAuth, then linkApiKeySchema.validate.
PostLink(r) ==
    /\ CanAccept(r)
    /\ \E caller \in DOMAIN user \cup {Anonymous}, apiKey \in SubmittedKeys,
          keyType \in {"personal", "alliance"}, slug \in Slugs \cup {NoSlug} :
        /\ (keyType = "alliance") <=> (slug # NoSlug)
        /\ LET arrived == [IdleRequest EXCEPT !.route = "link", !.caller = caller]
               q == [arrived EXCEPT !.apiKey = apiKey, !.keyType = keyType,
                                    !.allianceSlug = slug]
           IN  req' = [req EXCEPT ![r] =
                    IF caller = Anonymous
                    THEN Respond(arrived, 401, "Authentication required")
                    ELSE IF ~JoiAccepts(apiKey) THEN Respond(q, 400, "Validation error")
                    ELSE [q EXCEPT !.pc = "validate"]]
    /\ nreq' = nreq + 1
    /\ UNCHANGED <<user, grants, auditLog, linked, lastPut>>

\* await validatePnWApiKey(apiKey); 400 unless validation.isValid.
LinkValidate(r) ==
    /\ req[r].route = "link" /\ req[r].pc = "validate"
    /\ \E response \in HandlerResponses :
        LET validation == validatePnWApiKey(req[r].apiKey, response)
            q == [req[r] EXCEPT !.sent = TRUE, !.validation = validation,
                                !.queries = @ + 1,
                                !.logged = @ \o ValidationLog(req[r].apiKey, response)]
        IN  req' = [req EXCEPT ![r] =
                IF ~ValidationPasses(validation) THEN Respond(q, 400, "Invalid API key")
                ELSE [q EXCEPT !.pc = "dupcheck"]]
    /\ UNCHANGED <<user, grants, auditLog, nreq, linked, lastPut>>

\* await prisma.user.findFirst(...); 409 when its key decrypts to the submitted one.
LinkDupCheck(r) ==
    /\ req[r].route = "link" /\ req[r].pc = "dupcheck"
    /\ \E existing \in FindFirstKeyHolder :
        req' = [req EXCEPT ![r] =
            IF SameAsExisting(existing, req[r].apiKey)
            THEN Respond(req[r], 409, "API key already linked to another account")
            ELSE [req[r] EXCEPT !.pc =
                    IF req[r].keyType = "personal" THEN "write" ELSE "authorize"]]
    /\ UNCHANGED <<user, grants, auditLog, nreq, linked, lastPut>>

\* keyType alliance: alliance.findUnique (404), allianceManager.findFirst (403).
LinkAuthorize(r) ==
    /\ req[r].route = "link" /\ req[r].pc = "authorize"
    /\ LET q == req[r]
           manager == FindActiveManager(q.caller, q.allianceSlug)
       IN  req' = [req EXCEPT ![r] =
                IF q.allianceSlug \notin alliance THEN Respond(q, 404, "Alliance not found")
                ELSE IF ManagerCheckDenies(q.caller, manager)
                THEN Respond([q EXCEPT !.authz = "deny"], 403,
                             "You must be an alliance manager to link an alliance API key")
                ELSE [q EXCEPT !.authz = "allow", !.manager = manager, !.pc = "write"]]
    /\ UNCHANGED <<user, grants, auditLog, nreq, linked, lastPut>>

\* generateSalt(), encryptApiKey(apiKey, userSalt), then the update:
\* prisma.user.update (personal), or prisma.allianceManager.update if a manager
\* row was found (alliance).
LinkWrite(r) ==
    /\ req[r].route = "link" /\ req[r].pc = "write"
    /\ \E userSalt \in Salts, iv \in IVs :
        LET q == req[r]
            encryptedApiKey == encryptApiKey(q.apiKey, userSalt, iv)
            target == Target(q)
        IN  /\ req' = [req EXCEPT ![r] = [q EXCEPT !.encryptedApiKey = encryptedApiKey,
                                                    !.wrote = (target # NoUser),
                                                    !.pc = "audit"]]
            /\ user' = IF q.keyType = "personal"
                       THEN [user EXCEPT ![q.caller] =
                                LinkedUserRow(user[q.caller], encryptedApiKey, q.validation)]
                       ELSE user
            /\ allianceManager' =
                       IF q.keyType = "alliance" /\ q.manager # NoManager
                       THEN [allianceManager EXCEPT ![q.manager].managerApiKey = encryptedApiKey]
                       ELSE allianceManager
            /\ lastPut' = IF target # NoUser THEN [lastPut EXCEPT ![target] = r] ELSE lastPut
    /\ UNCHANGED <<fixed, auditLog, nreq, linked>>

\* await prisma.auditLog.create(...); res.json({ success: true, ... }).
LinkAudit(r) ==
    /\ req[r].route = "link" /\ req[r].pc = "audit"
    /\ LET q == req[r]
           target == Target(q)
       IN  /\ auditLog' = Append(auditLog,
                IF q.keyType = "personal"
                THEN AuditEntry(q.caller, "api_key_linked", "user", q.caller, NoSlug,
                                q.validation, FALSE)
                ELSE AuditEntry(q.caller, "alliance_api_key_linked", "alliance_manager",
                                q.manager, q.allianceSlug, q.validation, FALSE))
           /\ req' = [req EXCEPT ![r] = Respond(q, 200, "")]
           /\ linked' = IF target # NoUser THEN [linked EXCEPT ![target] = q.apiKey] ELSE linked
    /\ UNCHANGED <<user, grants, nreq, lastPut>>

\* DELETE /personal arrives: requireAuth.
DeletePersonal(r) ==
    /\ CanAccept(r)
    /\ \E caller \in DOMAIN user \cup {Anonymous} :
        LET q == [IdleRequest EXCEPT !.route = "unlinkPersonal",
                                     !.caller = caller]
        IN  req' = [req EXCEPT ![r] =
                IF caller = Anonymous THEN Respond(q, 401, "Authentication required")
                ELSE [q EXCEPT !.pc = "write"]]
    /\ nreq' = nreq + 1
    /\ UNCHANGED <<user, grants, auditLog, linked, lastPut>>

\* await prisma.user.update({ data: { pnwApiKey: null, ... } }).
UnlinkPersonalWrite(r) ==
    /\ req[r].route = "unlinkPersonal" /\ req[r].pc = "write"
    /\ LET q == req[r]
       IN  /\ user' = [user EXCEPT ![q.caller] = UnlinkedUserRow(user[q.caller])]
           /\ req' = [req EXCEPT ![r] = [q EXCEPT !.wrote = TRUE, !.pc = "audit"]]
           /\ linked' = [linked EXCEPT ![q.caller] = Null]
           /\ lastPut' = [lastPut EXCEPT ![q.caller] = r]
    /\ UNCHANGED <<grants, auditLog, nreq>>

\* await prisma.auditLog.create(...); res.json({ success: true, ... }).
UnlinkPersonalAudit(r) ==
    /\ req[r].route = "unlinkPersonal" /\ req[r].pc = "audit"
    /\ auditLog' = Append(auditLog,
            AuditEntry(req[r].caller, "api_key_removed", "user", req[r].caller, NoSlug,
                       NoValidation, TRUE))
    /\ req' = [req EXCEPT ![r] = Respond(req[r], 200, "")]
    /\ UNCHANGED <<user, grants, nreq, linked, lastPut>>

\* DELETE /alliance/:slug arrives: requireAllianceManager (requireAuth inside it).
DeleteAlliance(r) ==
    /\ CanAccept(r)
    /\ \E caller \in DOMAIN user \cup {Anonymous}, slug \in Slugs,
          bodySlug \in Slugs \cup {NoSlug} :
        LET arrived == [IdleRequest EXCEPT !.route = "unlinkAlliance", !.caller = caller]
            q == [arrived EXCEPT !.allianceSlug = slug, !.bodySlug = bodySlug]
            gate == requireAllianceManager(caller, DeleteAllianceParams(slug), bodySlug)
        IN  req' = [req EXCEPT ![r] =
                IF caller = Anonymous THEN Respond(arrived, 401, "Authentication required")
                ELSE IF gate = 400 THEN Respond(q, 400, "Alliance identifier required")
                ELSE IF gate = 403
                THEN Respond([q EXCEPT !.authz = "deny"], 403,
                             "Alliance manager access required for this alliance")
                ELSE [q EXCEPT !.pc = "authorize"]]
    /\ nreq' = nreq + 1
    /\ UNCHANGED <<user, grants, auditLog, linked, lastPut>>

\* alliance.findUnique({ routeSlug: slug }) (404), allianceManager.findFirst (403).
UnlinkAllianceAuthorize(r) ==
    /\ req[r].route = "unlinkAlliance" /\ req[r].pc = "authorize"
    /\ LET q == req[r]
           manager == FindActiveManager(q.caller, q.allianceSlug)
       IN  req' = [req EXCEPT ![r] =
                IF q.allianceSlug \notin alliance THEN Respond(q, 404, "Alliance not found")
                ELSE IF ManagerCheckDenies(q.caller, manager)
                THEN Respond([q EXCEPT !.authz = "deny"], 403, "Access denied")
                ELSE [q EXCEPT !.authz = "allow", !.manager = manager, !.pc = "write"]]
    /\ UNCHANGED <<user, grants, auditLog, nreq, linked, lastPut>>

\* if (allianceManager) await prisma.allianceManager.update({ managerApiKey: null }).
UnlinkAllianceWrite(r) ==
    /\ req[r].route = "unlinkAlliance" /\ req[r].pc = "write"
    /\ LET q == req[r]
           target == Target(q)
       IN  /\ allianceManager' =
                 IF target # NoUser
                 THEN [allianceManager EXCEPT ![target].managerApiKey = Null]
                 ELSE allianceManager
           /\ req' = [req EXCEPT ![r] = [q EXCEPT !.wrote = (target # NoUser), !.pc = "audit"]]
           /\ linked' = IF target # NoUser THEN [linked EXCEPT ![target] = Null] ELSE linked
           /\ lastPut' = IF target # NoUser THEN [lastPut EXCEPT ![target] = r] ELSE lastPut
    /\ UNCHANGED <<user, fixed, auditLog, nreq>>

\* await prisma.auditLog.create(...); res.json({ success: true, ... }).
UnlinkAllianceAudit(r) ==
    /\ req[r].route = "unlinkAlliance" /\ req[r].pc = "audit"
    /\ auditLog' = Append(auditLog,
            AuditEntry(req[r].caller, "alliance_api_key_removed", "alliance_manager",
                       req[r].manager, req[r].allianceSlug, NoValidation, TRUE))
    /\ req' = [req EXCEPT ![r] = Respond(req[r], 200, "")]
    /\ UNCHANGED <<user, grants, nreq, linked, lastPut>>

\* POST /validate arrives: requireAuth, then `if (!apiKey)` (the body is not
\* put through a schema: a short key is passed on).
PostValidate(r) ==
    /\ CanAccept(r)
    /\ \E caller \in DOMAIN user \cup {Anonymous}, apiKey \in SubmittedKeys \cup {Null} :
        LET arrived == [IdleRequest EXCEPT !.route = "validate", !.caller = caller]
            q == [arrived EXCEPT !.apiKey = apiKey]
        IN  req' = [req EXCEPT ![r] =
                IF caller = Anonymous THEN Respond(arrived, 401, "Authentication required")
                ELSE IF apiKey = Null THEN Respond(q, 400, "API key is required")
                ELSE [q EXCEPT !.pc = "validate"]]
    /\ nreq' = nreq + 1
    /\ UNCHANGED <<user, grants, auditLog, linked, lastPut>>

\* One call of validatePnWApiKey made by the handler of q: its result, the
\* request it sent to the upstream (none when the format check answers) and
\* what it logged.
Validated(q, response) ==
    [q EXCEPT !.validation = validatePnWApiKey(q.apiKey, response),
              !.sent = @ \/ ~FormatRejected(q.apiKey),
              !.queries = IF FormatRejected(q.apiKey) THEN @ ELSE @ + 1,
              !.logged = @ \o ValidationLog(q.apiKey, response)]

\* Variant: POST /validate keeping the nation it found on the caller's row.
ValidateCallStoring(r) ==
    /\ req[r].route = "validate" /\ req[r].pc = "validate"
    /\ \E response \in HandlerResponses :
        LET q == Validated(req[r], response)
        IN  /\ req' = [req EXCEPT ![r] =
                    IF ~q.validation.isValid THEN Respond(q, 400, "Invalid API key")
                    ELSE [q EXCEPT !.pc = "permissions"]]
            /\ user' = IF q.validation.isValid
                       THEN [user EXCEPT ![q.caller].pnwNationId = q.validation.nationId,
                                         ![q.caller].pnwNationName = q.validation.nationName]
                       ELSE user
    /\ UNCHANGED <<grants, auditLog, nreq, linked, lastPut>>

\* await validatePnWApiKey(apiKey); 400 unless validation.isValid.
ValidateCall(r) ==
    /\ req[r].route = "validate" /\ req[r].pc = "validate"
    /\ \E response \in HandlerResponses :
        LET q == Validated(req[r], response)
        IN  req' = [req EXCEPT ![r] =
                IF ~q.validation.isValid THEN Respond(q, 400, "Invalid API key")
                ELSE [q EXCEPT !.pc = "permissions"]]
    /\ UNCHANGED <<user, grants, auditLog, nreq, linked, lastPut>>

\* await getApiKeyPermissionSummary(apiKey): validatePnWApiKey once more; it
\* throws when that call finds the key invalid (the handler's catch: 500).
ValidatePermissions(r) ==
    /\ req[r].route = "validate" /\ req[r].pc = "permissions"
    /\ \E response \in HandlerResponses :
        LET again == Validated(req[r], response)
            q == [again EXCEPT !.validation = req[r].validation]
        IN  req' = [req EXCEPT ![r] =
                IF ~again.validation.isValid
                THEN Respond([q EXCEPT !.logged = @ \o <<HandlerErrorLine>>],
                             500, "Internal server error")
                ELSE Respond(q, 200, "")]
    /\ UNCHANGED <<user, grants, auditLog, nreq, linked, lastPut>>

\* GET /status arrives: requireAuth.
GetStatus(r) ==
    /\ CanAccept(r)
    /\ \E caller \in DOMAIN user \cup {Anonymous} :
        LET q == [IdleRequest EXCEPT !.route = "status", !.caller = caller]
        IN  req' = [req EXCEPT ![r] =
                IF caller = Anonymous THEN Respond(q, 401, "Authentication required")
                ELSE [q EXCEPT !.pc = "find"]]
    /\ nreq' = nreq + 1
    /\ UNCHANGED <<user, grants, auditLog, linked, lastPut>>

\* The rows of a set of manager ids, as the list findUnique returns them.
RECURSIVE ManagerList(_)
ManagerList(ms) ==
    IF ms = {} THEN <<>>
    ELSE LET m == CHOOSE x \in ms : TRUE IN <<m>> \o ManagerList(ms \ {m})

\* Variant: isLinked derived from the nation column instead of the key.
StatusEntryByNation(owner, allianceSlug, encrypted, nationId, nationName) ==
    [owner |-> owner, allianceSlug |-> allianceSlug, encrypted |-> encrypted,
     isLinked |-> nationId # NoNation, nationId |-> nationId, nationName |-> nationName,
     maskedKey |-> Null, usage |-> NoRateLimit, error |-> ""]

\* An entry of the status response while it is built: the selected columns
\* (encrypted is read, not returned) and the fields the handler fills in.
StatusEntry(owner, allianceSlug, encrypted, nationId, nationName) ==
    [owner |-> owner, allianceSlug |-> allianceSlug, encrypted |-> encrypted,
     isLinked |-> encrypted # Null, nationId |-> nationId, nationName |-> nationName,
     maskedKey |-> Null, usage |-> NoRateLimit, error |-> ""]

\* await prisma.user.findUnique({ select: pnwApiKey, pnwNationId,
\* pnwNationName, allianceManagers where isActive }).
StatusFind(r) ==
    /\ req[r].route = "status" /\ req[r].pc = "find"
    /\ LET u == req[r].caller
           managers == ManagerList({m \in SessionManagers(u) : allianceManager[m].isActive})
           personal == StatusEntry(u, NoSlug, user[u].pnwApiKey,
                                   user[u].pnwNationId, user[u].pnwNationName)
           alliances == [i \in 1..Len(managers) |->
                            StatusEntry(managers[i], allianceManager[managers[i]].allianceId,
                                        allianceManager[managers[i]].managerApiKey,
                                        NoNation, Null)]
       IN  req' = [req EXCEPT ![r] =
                [req[r] EXCEPT !.entries = <<personal>> \o alliances, !.pc = "usage"]]
    /\ UNCHANGED <<user, grants, auditLog, nreq, linked, lastPut>>

\* One credential of the status response: decryptApiKey, await
\* checkApiKeyRateLimit, maskSensitiveData; the catch around them replaces
\* the entry by { isLinked: true, error }.
CheckedEntry(entry, response) ==
    LET decrypted == decryptApiKey(entry.encrypted)
        checked == checkApiKeyRateLimit(response)
    IN  IF ~entry.isLinked THEN [entry EXCEPT !.nationId = NoNation, !.nationName = Null]
        ELSE IF ~decrypted.ok \/ ~checked.ok
        THEN [entry EXCEPT !.nationId = NoNation, !.nationName = Null,
                           !.error = "Unable to verify API key status"]
        ELSE [entry EXCEPT !.maskedKey = maskSensitiveData(decrypted.plaintext, VisibleChars),
                           !.usage = checked.rateLimit]

\* The personal key, then each manager key: one usage check per stored key;
\* res.json(response).
StatusUsage(r) ==
    /\ req[r].route = "status" /\ req[r].pc = "usage"
    /\ \E responses \in [1..Len(req[r].entries) -> HandlerUsage] :
        LET q == req[r]
            linkedEntries == {i \in 1..Len(q.entries) : q.entries[i].isLinked}
            entries == [i \in 1..Len(q.entries) |-> CheckedEntry(q.entries[i], responses[i])]
            failed == {i \in linkedEntries : entries[i].error # ""}
        IN  /\ \A i \in 1..Len(q.entries) \ linkedEntries :
                    responses[i] = UsageData(10, 2000)
            /\ req' = [req EXCEPT ![r] =
                    Respond([q EXCEPT !.entries = entries,
                                      !.queries = Cardinality(linkedEntries),
                                      !.sent = linkedEntries # {},
                                      !.logged = [i \in 1..Cardinality(failed) |->
                                                    HandlerErrorLine]],
                            200, "")]
    /\ UNCHANGED <<user, grants, auditLog, nreq, linked, lastPut>>

\* A prisma call rejects at the await the handler is suspended at: the
\* handler's catch answers 500 and the call has no effect.
StoreUnavailable(r) ==
    /\ req[r].pc \in {"dupcheck", "authorize", "write", "audit", "find", "details"}
    /\ req' = [req EXCEPT ![r] =
            Respond([req[r] EXCEPT !.logged = @ \o <<HandlerErrorLine>>],
                    500, "Internal server error")]
    /\ UNCHANGED <<user, grants, auditLog, nreq, linked, lastPut>>

Next ==
    \E r \in DOMAIN req :
        \/ PostLink(r)
        \/ LinkValidate(r)
        \/ LinkDupCheck(r)
        \/ LinkAuthorize(r)
        \/ LinkWrite(r)
        \/ LinkAudit(r)
        \/ DeletePersonal(r)
        \/ UnlinkPersonalWrite(r)
        \/ UnlinkPersonalAudit(r)
        \/ DeleteAlliance(r)
        \/ UnlinkAllianceAuthorize(r)
        \/ UnlinkAllianceWrite(r)
        \/ UnlinkAllianceAudit(r)
        \/ StoreUnavailable(r)

Spec == Init /\ [][Next]_vars
SpecLong == InitLong /\ [][Next]_vars
SpecConcurrent == InitConcurrent /\ [][Next]_vars

\* alliances.isPublic: the alliances whose details anyone may read.
PublicAlliances == {"a1"}

\* GET /api/alliances/:slug arrives: optionalAuth attaches the user when the
\* request carries a valid JWT and passes every request on.
GetAlliance(r) ==
    /\ CanAccept(r)
    /\ \E caller \in DOMAIN user \cup {Anonymous}, slug \in Slugs :
        req' = [req EXCEPT ![r] =
            [IdleRequest EXCEPT !.route = "alliance", !.caller = caller,
                                !.allianceSlug = slug, !.pc = "details"]]
    /\ nreq' = nreq + 1
    /\ UNCHANGED <<user, grants, auditLog, linked, lastPut>>

\* hasAccess: alliance.isPublic || user?.isSystemAdmin ||
\* user?.allianceManagers.some(m => m.allianceSlug === slug).
HasAccess(caller, slug) ==
    \/ slug \in PublicAlliances
    \/ /\ caller # Anonymous
       /\ \/ IsSystemAdmin(caller)
          \/ \E m \in SessionManagers(caller) : allianceManager[m].allianceId = slug

\* await prisma.alliance.findUnique(...): 404, 403 or the alliance.
AllianceDetails(r) ==
    /\ req[r].route = "alliance" /\ req[r].pc = "details"
    /\ LET q == req[r]
       IN  req' = [req EXCEPT ![r] =
                IF q.allianceSlug \notin alliance THEN Respond(q, 404, "Alliance not found")
                ELSE IF q.allianceSlug \notin PublicAlliances /\ q.caller = Anonymous
                THEN Respond([q EXCEPT !.authz = "deny"], 403, "Authentication required")
                ELSE IF ~HasAccess(q.caller, q.allianceSlug)
                THEN Respond([q EXCEPT !.authz = "deny"], 403, "Access denied")
                ELSE Respond([q EXCEPT !.authz = "allow"], 200, "")]
    /\ UNCHANGED <<user, grants, auditLog, nreq, linked, lastPut>>

\* The credential routes and the alliance details route.
NextAccess ==
    \/ Next
    \/ \E r \in DOMAIN req : GetAlliance(r) \/ AllianceDetails(r)

SpecAccess == Init /\ [][NextAccess]_vars

\* The whole router: the credential routes above, POST /validate, GET /status.
NextService ==
    \/ Next
    \/ \E r \in DOMAIN req :
        \/ PostValidate(r)
        \/ ValidateCall(r)
        \/ ValidatePermissions(r)
        \/ GetStatus(r)
        \/ StatusFind(r)
        \/ StatusUsage(r)

SpecService == InitStored /\ [][NextService]_vars

\* ------------------------------------------------------------ rate limiter
\* checkRateLimit(req, res, next) of middleware/auth.ts, one invocation per
\* slot; its two awaits are steps, so invocations interleave.
\* `user?.id || req.ip` and `user ? 'user' : 'ip'`.
Identifiers == {"u1", "10.0.0.1"}
TypeOf(identifier) == IF identifier = "u1" THEN "user" ELSE "ip"

\* Date.now() advances.
Tick ==
    /\ limiter.now < MaxTime
    /\ limiter' = [limiter EXCEPT !.now = @ + 1]
    /\ UNCHANGED <<service, call, auth, client>>

\* A request reaches the middleware: identifier, windowStart = now - windowMs
\* and windowEnd = now are computed; prisma.rateLimit.findFirst is awaited.
LimitArrive(s) ==
    /\ limiter.inflight[s].pc = "idle"
    /\ limiter.arrivals < MaxArrivals
    /\ \E identifier \in Identifiers :
        limiter' = [limiter EXCEPT
            !.arrivals = @ + 1,
            !.inflight[s] = [pc |-> "find", identifier |-> identifier,
                             windowStart |-> limiter.now - RateLimitWindowMs,
                             windowEnd |-> limiter.now, arrived |-> limiter.now]]
    /\ UNCHANGED <<service, call, auth, client>>

\* The rows findFirst may return for an invocation.
CurrentUsage(i) ==
    {row \in limiter.rows :
        /\ row.identifier = i.identifier
        /\ row.type = TypeOf(i.identifier)
        /\ row.windowStart >= i.windowStart
        /\ row.windowEnd <= i.windowEnd}

\* findFirst resolves with one of the matching rows, or null: 429 if that row
\* has reached maxRequests, else prisma.rateLimit.upsert is awaited.
LimitFind(s) ==
    LET i == limiter.inflight[s]
    IN  /\ i.pc = "find"
        /\ \/ /\ \E row \in CurrentUsage(i) : row.requests >= RateLimitMaxRequests
              /\ limiter' = [limiter EXCEPT
                    !.inflight[s] = [pc |-> "idle"],
                    !.refused = Append(@, [identifier |-> i.identifier, arrived |-> i.arrived])]
           \/ /\ \/ CurrentUsage(i) = {}
                 \/ \E row \in CurrentUsage(i) : row.requests < RateLimitMaxRequests
              /\ limiter' = [limiter EXCEPT !.inflight[s].pc = "upsert"]
        /\ UNCHANGED <<service, call, auth, client>>

\* The upsert on (identifier, type, windowStart): increment, or create with
\* requests 1; then next().
LimitUpsert(s) ==
    LET i == limiter.inflight[s]
        hit == {row \in limiter.rows :
                    /\ row.identifier = i.identifier
                    /\ row.type = TypeOf(i.identifier)
                    /\ row.windowStart = i.windowStart}
        created == [identifier |-> i.identifier, type |-> TypeOf(i.identifier),
                    windowStart |-> i.windowStart, windowEnd |-> i.windowEnd,
                    requests |-> 1]
    IN  /\ i.pc = "upsert"
        /\ limiter' = [limiter EXCEPT
                !.rows = IF hit = {} THEN @ \cup {created}
                         ELSE (@ \ hit) \cup {[row EXCEPT !.requests = @ + 1] : row \in hit},
                !.inflight[s] = [pc |-> "idle"],
                !.passed = Append(@, [identifier |-> i.identifier, arrived |-> i.arrived])]
        /\ UNCHANGED <<service, call, auth, client>>

\* A prisma call rejects: the catch logs and calls next().
LimitStoreFails(s) ==
    LET i == limiter.inflight[s]
    IN  /\ i.pc \in {"find", "upsert"}
        /\ limiter' = [limiter EXCEPT
                !.inflight[s] = [pc |-> "idle"],
                !.passed = Append(@, [identifier |-> i.identifier, arrived |-> i.arrived])]
        /\ UNCHANGED <<service, call, auth, client>>

InitLimiter ==
    /\ InitTables(SeedStaff)
    /\ req = [r \in {1} |-> IdleRequest]
    /\ budget = 0

NextLimiter ==
    \/ Tick
    \/ \E s \in DOMAIN limiter.inflight :
        \/ LimitArrive(s)
        \/ LimitFind(s)
        \/ LimitUpsert(s)
        \/ LimitStoreFails(s)

SpecLimiter == InitLimiter /\ [][NextLimiter]_vars

\* -------------------------------------------------------------- auth routes
\* routes/auth.ts behind requireAuth (the JWT strategy of app.ts), and the
\* standalone handler api/auth/me.ts.  A JWT is modelled as its payload; the
\* JWTs and sessions live longer than the behaviour (none expires).
AuthUsers == {"u1", "u2"}
NoJwt == [userId |-> Anonymous, sessionId |-> <<>>]
AuthRoutes == {"logout", "logoutAll", "revoke", "me", "refresh", "apiMe"}

\* GET /discord/callback: userSession.create with a fresh sessionToken
\* (is_active defaults to true), jwt.sign({userId, sessionId: sessionToken}).
Login(u) ==
    /\ Len(auth.userSession) < MaxSessions
    /\ LET id == Len(auth.userSession) + 1
           sessionToken == <<"token", id>>
       IN  auth' = [auth EXCEPT
                !.userSession = Append(@, [id |-> id, userId |-> u,
                                           sessionToken |-> sessionToken,
                                           isActive |-> TRUE]),
                !.issued = @ \cup {[userId |-> u, sessionId |-> sessionToken]}]
    /\ UNCHANGED <<service, call, limiter, client>>

\* JWT strategy: userSession.findFirst({userId, sessionToken, isActive: true}).
ValidSession(jwt) ==
    \E i \in 1..Len(auth.userSession) :
        /\ auth.userSession[i].userId = jwt.userId
        /\ auth.userSession[i].sessionToken = jwt.sessionId
        /\ auth.userSession[i].isActive

\* A request arrives with a JWT issued earlier, or none.  requireAuth answers
\* 401 unless the session is valid; api/auth/me.ts answers 401 only without a
\* bearer token: it verifies the JWT's signature and nothing else.
AuthArrive ==
    /\ auth.request.pc \in {"idle", "done"}
    /\ auth.served < MaxAuthRequests
    /\ \E route \in AuthRoutes, jwt \in auth.issued \cup {NoJwt}, param \in 1..MaxSessions :
        /\ route # "revoke" => param = 1
        /\ LET q == [route |-> route, jwt |-> jwt, param |-> param,
                     stale |-> jwt.sessionId \in auth.invalidated,
                     status |-> 0, pc |-> "handle"]
               admitted == IF route = "apiMe" THEN jwt # NoJwt ELSE ValidSession(jwt)
           IN  auth' = [auth EXCEPT
                    !.served = @ + 1,
                    !.request = IF admitted THEN q
                                ELSE [q EXCEPT !.pc = "done", !.status = 401]]
    /\ UNCHANGED <<service, call, limiter, client>>

\* Variant: DELETE /sessions/:sessionId matching on the id alone.
RevokedAnyUser(q) ==
    {i \in 1..Len(auth.userSession) :
        auth.userSession[i].id = q.param /\ auth.userSession[i].isActive}

\* The rows each updateMany matches.
LoggedOut(q) ==
    {i \in 1..Len(auth.userSession) :
        /\ auth.userSession[i].userId = q.jwt.userId
        /\ auth.userSession[i].sessionToken = q.jwt.sessionId
        /\ auth.userSession[i].isActive}
LoggedOutAll(q) ==
    {i \in 1..Len(auth.userSession) :
        auth.userSession[i].userId = q.jwt.userId /\ auth.userSession[i].isActive}
Revoked(q) ==
    {i \in 1..Len(auth.userSession) :
        /\ auth.userSession[i].id = q.param
        /\ auth.userSession[i].userId = q.jwt.userId
        /\ auth.userSession[i].isActive}

\* updateMany({where, data: {isActive: false}}) on the matched rows.
Deactivate(matched) ==
    [auth EXCEPT
        !.userSession = [i \in 1..Len(@) |->
                            IF i \in matched THEN [@[i] EXCEPT !.isActive = FALSE] ELSE @[i]],
        !.invalidated = @ \cup {auth.userSession[i].sessionToken : i \in matched}]

\* The handler behind the authentication: its store call and its answer.
AuthHandle ==
    LET q == auth.request
        answer(a, status) == [a EXCEPT !.request.pc = "done", !.request.status = status]
    IN  /\ q.pc = "handle"
        /\ auth' =
            CASE q.route = "logout" -> answer(Deactivate(LoggedOut(q)), 200)
              [] q.route = "logoutAll" -> answer(Deactivate(LoggedOutAll(q)), 200)
              [] q.route = "revoke" ->
                    IF Revoked(q) = {} THEN answer(auth, 404)
                    ELSE answer(Deactivate(Revoked(q)), 200)
              [] q.route = "refresh" ->
                    IF ValidSession(q.jwt) THEN answer(auth, 200) ELSE answer(auth, 401)
              [] OTHER -> answer(auth, 200)
        /\ UNCHANGED <<service, call, limiter, client>>

\* The handler's prisma call rejects: its catch answers 500.
AuthStoreFails ==
    /\ auth.request.pc = "handle"
    /\ auth' = [auth EXCEPT !.request.pc = "done", !.request.status = 500]
    /\ UNCHANGED <<service, call, limiter, client>>

InitAuth ==
    /\ InitTables(SeedStaff)
    /\ req = [r \in {1} |-> IdleRequest]
    /\ budget = 0

NextAuth ==
    \/ \E u \in AuthUsers : Login(u)
    \/ AuthArrive
    \/ AuthHandle
    \/ AuthStoreFails

SpecAuth == InitAuth /\ [][NextAuth]_vars

\* ----------------------------------------------------------------- frontend
\* store/authStore.ts: the axios instance `api`, its response interceptor,
\* refreshToken and logout.  A chain is a stack of requests of `api`, each
\* awaited by the interceptor run of the one below it; logout() is called
\* without await and starts a chain of its own.
Frame(kind) == [kind |-> kind, retry |-> FALSE, pc |-> "flight"]

\* logout(): POST /auth/logout when the store holds a token; then
\* window.location.href = '/login'.
CallLogout(st) ==
    IF st.token
    THEN [st EXCEPT !.chains = Append(@, <<Frame("logout")>>),
                    !.sent = @ + 1, !.logouts = @ + 1, !.navigating = TRUE]
    ELSE [st EXCEPT !.navigating = TRUE]

\* The request on top of chain c settles (ok: resolved, else rejected).  A
\* settled POST /auth/logout runs logout's finally (the token is cleared).
\* Below a settled POST /auth/refresh is the interceptor that awaited
\* refreshToken(): on true it re-sends its request, api(originalRequest); on
\* false it calls logout() and rejects.
RECURSIVE Settle(_, _, _)
Settle(st, c, ok) ==
    LET stack == st.chains[c]
        top == stack[Len(stack)]
        rest == SubSeq(stack, 1, Len(stack) - 1)
        popped == [st EXCEPT !.chains[c] = rest,
                             !.token = IF top.kind = "logout" THEN FALSE ELSE @]
    IN  IF rest = <<>> THEN popped
        ELSE IF ok /\ popped.token
        THEN [popped EXCEPT !.chains[c][Len(rest)].pc = "flight",
                            !.sent = @ + 1, !.retries = @ + 1]
        ELSE Settle(CallLogout(popped), c, FALSE)

\* A component calls the API through `api` (the store holds a token),
\* whatever else is pending.
ClientRequest ==
    /\ client.token /\ ~client.unloaded /\ client.sent < MaxSent
    /\ client' = [client EXCEPT !.chains = Append(@, <<Frame("data")>>),
                                !.asked = @ + 1, !.sent = @ + 1]
    /\ UNCHANGED <<service, call, limiter, auth>>

\* The server answers the request on top of chain c.  A 401 to a request not
\* yet marked _retry runs the interceptor: it marks the request and awaits
\* refreshToken(), which POSTs /auth/refresh through `api` when the store
\* holds a token and returns false otherwise.
ServerAnswers(c, status) ==
    LET stack == client.chains[c]
        top == stack[Len(stack)]
        heard == [client EXCEPT !.answers = @ \cup {status}]
        marked == [heard EXCEPT !.chains[c][Len(stack)].retry = TRUE]
    IN  /\ ~client.unloaded
        /\ client.sent < MaxSent
        /\ stack # <<>> /\ top.pc = "flight"
        /\ client' =
            IF status = 200 THEN Settle(heard, c, TRUE)
            ELSE IF status = 401 /\ ~top.retry
            THEN IF client.token
                 THEN [marked EXCEPT
                        !.chains[c] = Append([@ EXCEPT ![Len(stack)].pc = "refreshing"],
                                             Frame("refresh")),
                        !.sent = @ + 1, !.refreshes = @ + 1]
                 ELSE Settle(CallLogout(marked), c, FALSE)
            ELSE Settle(heard, c, FALSE)
        /\ UNCHANGED <<service, call, limiter, auth>>

\* The navigation to /login unloads the page: what was pending is dropped.
Unload ==
    /\ client.navigating /\ ~client.unloaded
    /\ client' = [client EXCEPT !.chains = <<>>, !.unloaded = TRUE]
    /\ UNCHANGED <<service, call, limiter, auth>>

InitClient ==
    /\ InitTables(SeedStaff)
    /\ req = [r \in {1} |-> IdleRequest]
    /\ budget = 0

NextClient ==
    \/ ClientRequest
    \/ \E c \in DOMAIN client.chains, status \in {200, 401, 500} : ServerAnswers(c, status)
    \/ Unload

SpecClient == InitClient /\ [][NextClient]_vars

\* ----------------------------------------------------- the utility functions
\* The utility functions called directly, outside any route: the cipher of
\* utils/encryption.ts on either runtime and under any master key, and the
\* upstream client of utils/pnwApi.ts against any upstream answer.
MasterKeys == {MasterKey, MasterKey + 1}
\* The strings encrypted: the secrets, a short one, the empty one.
Plaintexts == SubmittedKeys \cup {<<>>}

\* What may happen to an encrypted string between encryptApiKey and
\* decryptApiKey: nothing; one hex character of the ciphertext or of the tag
\* replaced by another; a field lost or added.
Tampers ==
    { [kind |-> "none", pos |-> 0, delta |-> 0],
      [kind |-> "ciphertext", pos |-> 1, delta |-> 1],
      [kind |-> "ciphertext", pos |-> 5, delta |-> 8],
      [kind |-> "tag", pos |-> 0, delta |-> 0],
      [kind |-> "fewer", pos |-> 0, delta |-> 0],
      [kind |-> "more", pos |-> 0, delta |-> 0] }

Tampered(data, tamper) ==
    CASE tamper.kind = "ciphertext" ->
            [data EXCEPT ![4][tamper.pos] = (@ + tamper.delta) % 16]
      [] tamper.kind = "tag" -> [data EXCEPT ![3][2] = @ + 1]
      [] tamper.kind = "fewer" -> SubSeq(data, 1, 3)
      [] tamper.kind = "more" -> Append(data, <<>>)
      [] OTHER -> data

\* A string one character short of the minimum length.
NearKey == SubSeq(Key(1), 1, MinKeyLength - 1)
\* The strings validated.
Candidates == Plaintexts \cup {NearKey}

\* What the upstream may answer to a usage check.
UsageResponses ==
    {UsageData(requests, max_requests) :
        requests \in {0, 10, 800, 801, 850, 1600, 1601, 2000},
        max_requests \in {0, 1000, 2000}}
        \cup {UsageFailure("errors"), UsageFailure("throw")}

\* The strings masked: of every length around the threshold 2 x visibleChars,
\* "ABCDEFGHIJKLMNOP" among them.
Letters(n) == [j \in 1..n |-> 64 + j]
MaskInputs == {Letters(n) : n \in {0, 2, 5, 8, 9, 12, 16}} \cup ApiKeys

InitFunctions ==
    /\ InitTables(SeedStaff)
    /\ req = [r \in {1} |-> IdleRequest]
    /\ budget = 0

\* encryptApiKey(plaintext) or encryptApiKey(plaintext, userSalt).
CallEncrypt ==
    \E runtime \in Runtimes, masterKey \in MasterKeys \cup {NoMasterKey},
       plaintext \in Plaintexts, salt \in Salts, iv \in IVs :
        /\ call' = [fn |-> "encryptApiKey", runtime |-> runtime, masterKey |-> masterKey,
                    plaintext |-> plaintext,
                    out |-> encryptUnder(runtime, masterKey, plaintext, salt, iv)]
        /\ UNCHANGED <<service, limiter, auth, client>>

\* decryptApiKey(encryptedData) of a string encryptApiKey produced, by a
\* process whose master key may be another one, or unset.
CallDecrypt ==
    /\ call.fn = "encryptApiKey"
    /\ call.out.ok
    /\ \E runtime \in Runtimes, masterKey \in MasterKeys \cup {NoMasterKey}, tamper \in Tampers :
        /\ tamper.kind = "ciphertext" => tamper.pos <= Len(call.out.data[4])
        /\ call' = [fn |-> "decryptApiKey", runtime |-> runtime, masterKey |-> masterKey,
                    sealedUnder |-> call.masterKey, plaintext |-> call.plaintext,
                    tamper |-> tamper.kind,
                    out |-> decryptUnder(runtime, masterKey, Tampered(call.out.data, tamper))]
    /\ UNCHANGED <<service, limiter, auth, client>>

\* validatePnWApiKey(apiKey), against whatever the upstream answers.
CallValidate ==
    \E apiKey \in Candidates, response \in UpstreamResponses :
        /\ call' = [fn |-> "validatePnWApiKey", apiKey |-> apiKey, response |-> response,
                    queries |-> ValidationQueries(apiKey),
                    logged |-> ValidationLog(apiKey, response),
                    out |-> validatePnWApiKey(apiKey, response)]
        /\ UNCHANGED <<service, limiter, auth, client>>

\* checkApiKeyRateLimit(apiKey), against whatever the upstream answers.
CallCheckUsage ==
    \E response \in UsageResponses :
        /\ call' = [fn |-> "checkApiKeyRateLimit", response |-> response,
                    out |-> checkApiKeyRateLimit(response)]
        /\ UNCHANGED <<service, limiter, auth, client>>

\* maskSensitiveData(data) or maskSensitiveData(data, visibleChars).
CallMask ==
    \E data \in MaskInputs, visibleChars \in {VisibleChars, VisibleChars \div 2} :
        /\ call' = [fn |-> "maskSensitiveData", data |-> data, visibleChars |-> visibleChars,
                    out |-> maskSensitiveData(data, visibleChars)]
        /\ UNCHANGED <<service, limiter, auth, client>>

NextFunctions ==
    \/ CallEncrypt
    \/ CallDecrypt
    \/ CallValidate
    \/ CallCheckUsage
    \/ CallMask

SpecFunctions == InitFunctions /\ [][NextFunctions]_vars

\* ------------------------------------------------------------- properties
\* The stored ciphertext of an owner: users.pnw_api_key or
\* alliance_managers.manager_api_key (Null: no credential).
StoredKey(o) ==
    IF o \in DOMAIN user THEN user[o].pnwApiKey ELSE allianceManager[o].managerApiKey

\* A link request answered because the validator refused the secret or the
\* manager check refused the caller.
LinkFailed(q) ==
    /\ q.route = "link" /\ q.pc = "done"
    /\ (q.sent /\ ~q.validation.isValid) \/ q.authz = "deny"

\* The step is the store write of request slot r.
WriteStep(r) == req[r].pc = "write" /\ req'[r].pc = "audit"

Authenticated(q) == q.caller \in DOMAIN user
AllianceRequest(q) ==
    \/ q.route = "link" /\ q.keyType = "alliance"
    \/ q.route = "unlinkAlliance"

\* C1: a link request whose validation fails or whose authorization is denied
\* changes no owner's stored credential, has written nothing and is answered
\* with an error status; and every change of a stored credential is the write
\* of a link whose secret was found valid and whose caller was not denied
\* (the credential becomes present) or the write of an unlink (a present
\* credential becomes absent), made for that request's own target.
FailedLinkLeavesCredentials ==
    [][ /\ \A r \in DOMAIN req :
            LinkFailed(req'[r]) /\ ~LinkFailed(req[r]) =>
                /\ user' = user /\ allianceManager' = allianceManager
                /\ ~req'[r].wrote
                /\ req'[r].status \in {400, 403}
        /\ \A o \in Owners :
            StoredKey(o)' # StoredKey(o) =>
                \E r \in DOMAIN req :
                    /\ WriteStep(r) /\ Target(req[r]) = o
                    /\ \/ /\ req[r].route = "link"
                          /\ req[r].validation.isValid /\ req[r].authz # "deny"
                          /\ StoredKey(o)' # Null
                       \/ /\ req[r].route \in {"unlinkPersonal", "unlinkAlliance"}
                          /\ StoredKey(o) # Null /\ StoredKey(o)' = Null
      ]_vars

\* C1 witness: a link has been refused by the manager check while some owner
\* holds a stored credential.
LinkRefusedOverLinked ==
    \E r \in DOMAIN req, o \in Owners :
        LinkFailed(req[r]) /\ req[r].status = 403 /\ StoredKey(o) # Null

\* C2: a link request answered with an error has made no credential write.
FailClosed ==
    \A r \in DOMAIN req :
        req[r].route = "link" /\ req[r].pc = "done" /\ req[r].status # 200
            => ~req[r].wrote

\* C3: no two distinct users hold stored credentials that decrypt to the same
\* secret.
NoSharedSecret ==
    \A u, v \in DOMAIN user :
        /\ u # v
        /\ user[u].pnwApiKey # Null /\ user[v].pnwApiKey # Null
        /\ decryptApiKey(user[u].pnwApiKey).ok /\ decryptApiKey(user[v].pnwApiKey).ok
        => decryptApiKey(user[u].pnwApiKey).plaintext
                # decryptApiKey(user[v].pnwApiKey).plaintext

\* A caller that is no system admin and holds no alliance-manager grant.
PlainUser(u) == ~IsSystemAdmin(u) /\ SessionManagers(u) = {}

\* C4: every well-formed request of a plain user aimed at the credential of an
\* existing alliance is answered 403 (the store permitting) and writes nothing,
\* and no plain user's request writes any credential but the caller's own.
PlainUserDenied ==
    \A r \in DOMAIN req :
        LET q == req[r]
        IN  Authenticated(q) /\ PlainUser(q.caller) =>
                /\ q.wrote => Target(q) = q.caller
                /\ /\ q.pc = "done" /\ AllianceRequest(q)
                   /\ q.allianceSlug \in alliance
                   /\ q.route = "link" => JoiAccepts(q.apiKey)
                   /\ q.status # 500
                   => q.status = 403 /\ ~q.wrote

\* The caller's active grants for the alliance the request names.
ActiveGrants(q) ==
    {m \in SessionManagers(q.caller) :
        allianceManager[m].allianceId = q.allianceSlug /\ allianceManager[m].isActive}

\* C5: a link or unlink on an alliance credential by a caller who is no system
\* admin and whose active grant for that alliance has role "viewer" is never
\* allowed and never writes.
ViewerDenied ==
    \A r \in DOMAIN req :
        LET q == req[r]
        IN  /\ Authenticated(q) /\ AllianceRequest(q)
            /\ ~IsSystemAdmin(q.caller)
            /\ \E m \in ActiveGrants(q) : allianceManager[m].role = "viewer"
            => q.authz # "allow" /\ ~q.wrote

\* C6: a link or unlink of a system admin on an alliance credential that is
\* answered 200 has taken effect in the store: the link has written a manager
\* key, the unlink leaves no manager key stored for that alliance.
SystemAdminTakesEffect ==
    \A r \in DOMAIN req :
        LET q == req[r]
        IN  /\ Authenticated(q) /\ AllianceRequest(q)
            /\ IsSystemAdmin(q.caller)
            /\ q.pc = "done" /\ q.status = 200
            => IF q.route = "link" THEN q.wrote
               ELSE \A m \in DOMAIN allianceManager :
                        allianceManager[m].allianceId = q.allianceSlug
                            => StoredKey(m) = Null

\* No handler is suspended at an await.
Quiescent == \A r \in DOMAIN req : req[r].pc \in {"idle", "done"}

\* C7: between requests, every stored ciphertext decrypts, under the master key
\* and its embedded salt, to the secret of the owner's most recent link answered
\* 200, and an owner without such a link since their last unlink stores none.
StoredIsLastLinked ==
    Quiescent =>
        \A o \in Owners :
            IF StoredKey(o) = Null THEN linked[o] = Null
            ELSE /\ decryptApiKey(StoredKey(o)).ok
                 /\ decryptApiKey(StoredKey(o)).plaintext = linked[o]

\* C8: with two requests in flight at once, every user row is whole: an absent
\* ciphertext goes with absent nation columns, a present one decrypts to the
\* secret whose nation id and name the row carries, and the row (or the manager
\* key) is exactly what the link request whose write landed last put there.
LastWriteWins ==
    /\ \A u \in DOMAIN user :
        IF user[u].pnwApiKey = Null
        THEN user[u].pnwNationId = NoNation /\ user[u].pnwNationName = Null
        ELSE LET d == decryptApiKey(user[u].pnwApiKey)
             IN  /\ d.ok
                 /\ user[u].pnwNationId = NationIdOf(d.plaintext)
                 /\ user[u].pnwNationName = NationNameOf(d.plaintext)
    /\ \A o \in Owners, r \in DOMAIN req :
        /\ lastPut[o] = r /\ req[r].wrote
        /\ req[r].route = "link" /\ Target(req[r]) = o
        => /\ StoredKey(o) = req[r].encryptedApiKey
           /\ o \in DOMAIN user =>
                user[o] = UserRow(req[r].encryptedApiKey, req[r].validation.nationId,
                                  req[r].validation.nationName)

\* C8 witness: two links of different secrets for the same user are both in
\* flight and both have made their store write.
TwoLinksRaced ==
    /\ req[1].route = "link" /\ req[2].route = "link"
    /\ req[1].keyType = "personal" /\ req[2].keyType = "personal"
    /\ req[1].caller = req[2].caller /\ req[1].apiKey # req[2].apiKey
    /\ req[1].pc = "audit" /\ req[2].pc = "audit"
    /\ req[1].wrote /\ req[2].wrote

\* C9 (as stated): the secret of a link request has been sent to the validator
\* only if the access check has allowed the caller for the target owner.
SentOnlyAfterAllowed ==
    \A r \in DOMAIN req :
        req[r].route = "link" /\ req[r].keyType = "alliance" /\ req[r].sent
            => req[r].authz = "allow"

\* C9 (amended): in a link request the manager check is reached only after the
\* secret was sent to the validator and reported valid, and the secret is
\* encrypted and the store written only after the validator reported it valid
\* and, for an alliance credential, the manager check allowed the caller.
ValidateAuthorizePersist ==
    \A r \in DOMAIN req :
        LET q == req[r]
        IN  q.route = "link" =>
                /\ q.authz # "none" \/ q.pc \in {"dupcheck", "authorize"}
                        => q.sent /\ q.validation.isValid
                /\ q.pc \in {"write", "audit"} \/ q.wrote \/ q.encryptedApiKey # Null
                        => /\ q.sent /\ q.validation.isValid
                           /\ q.keyType = "alliance" => q.authz = "allow"

\* C9 witness: an alliance link has written the store after both checks.
AllianceLinkPersisted ==
    \E r \in DOMAIN req :
        /\ req[r].route = "link" /\ req[r].keyType = "alliance"
        /\ req[r].wrote /\ req[r].authz = "allow" /\ req[r].sent

\* C10: every unlink of an authenticated caller for an owner they are
\* authorized for (their own user; an existing alliance they hold an active
\* grant for) is answered 200, the store permitting, and leaves the owner's
\* credential absent.
UnlinkSucceeds ==
    \A r \in DOMAIN req :
        LET q == req[r]
        IN  /\ Authenticated(q) /\ q.pc = "done" /\ q.status # 500
            /\ \/ q.route = "unlinkPersonal"
               \/ /\ q.route = "unlinkAlliance" /\ q.allianceSlug \in alliance
                  /\ ActiveGrants(q) # {}
            => /\ q.status = 200
               /\ q.route = "unlinkPersonal" => StoredKey(q.caller) = Null
               /\ q.route = "unlinkAlliance" =>
                    \A m \in ActiveGrants(q) : StoredKey(m) = Null

\* C11: every step of a POST /validate request, from its arrival to its answer
\* and whatever the validator reports, leaves the users table (stored keys and
\* nation columns), the manager keys and the audit log as they were.
ValidateWritesNothing ==
    [][ \A r \in DOMAIN req :
            req'[r].route = "validate" /\ req'[r] # req[r] =>
                user' = user /\ allianceManager' = allianceManager /\ auditLog' = auditLog
      ]_vars

\* C11 witness: a validate request has been answered 200 for a caller who has
\* a stored credential.
ValidatedOverStored ==
    \E r \in DOMAIN req :
        /\ req[r].route = "validate" /\ req[r].pc = "done" /\ req[r].status = 200
        /\ StoredKey(req[r].caller) # Null

\* A GET /status request of an authenticated caller that has been answered
\* without the store failing.
StatusAnswered(q) ==
    q.route = "status" /\ q.pc = "done" /\ Authenticated(q) /\ q.status # 500

\* C12: GET /status is answered 200 with one entry for the caller's own user
\* and one for each of the caller's active grants, and each entry reports
\* isLinked true exactly when a key is stored for that owner.
StatusReportsStored ==
    \A r \in DOMAIN req :
        LET q == req[r]
        IN  StatusAnswered(q) =>
                /\ q.status = 200
                /\ Len(q.entries) >= 1 /\ q.entries[1].owner = q.caller
                /\ \A m \in SessionManagers(q.caller) :
                        allianceManager[m].isActive =>
                            \E i \in 2..Len(q.entries) : q.entries[i].owner = m
                /\ \A i \in 1..Len(q.entries) :
                        q.entries[i].isLinked <=> StoredKey(q.entries[i].owner) # Null

\* C12 witness: after the caller's personal key was removed, status reports the
\* user as not linked and a manager key of the caller as linked.
StatusAfterUnlink ==
    \E r \in DOMAIN req :
        /\ StatusAnswered(req[r]) /\ req[r].status = 200
        /\ ~req[r].entries[1].isLinked
        /\ \E i \in 2..Len(req[r].entries) : req[r].entries[i].isLinked
        /\ \E i \in 1..Len(auditLog) :
                auditLog[i].action = "api_key_removed" /\ auditLog[i].userId = req[r].caller

\* C13: in an answered GET /status, every entry of a stored credential still
\* carries isLinked, the masked view of the stored key and, for the personal
\* key, the stored nation id and name, also when its usage check failed.
FailedUsageKeepsEntry ==
    \A r \in DOMAIN req :
        LET q == req[r]
        IN  StatusAnswered(q) =>
                /\ q.status = 200
                /\ \A i \in 1..Len(q.entries) :
                        q.entries[i].encrypted # Null =>
                            /\ q.entries[i].isLinked
                            /\ q.entries[i].maskedKey =
                                    maskSensitiveData(
                                        decryptApiKey(q.entries[i].encrypted).plaintext,
                                        VisibleChars)
                            /\ i = 1 => /\ q.entries[1].nationId = user[q.caller].pnwNationId
                                        /\ q.entries[1].nationName = user[q.caller].pnwNationName

\* The text fields of the JSON a request was answered with (error messages
\* are fixed texts of the handlers): the nation name of a 200 link or validate
\* answer, and the masked keys and nation names of a status answer.
ResponseTexts(q) ==
    IF q.pc # "done" THEN {}
    ELSE IF q.route \in {"link", "validate"} /\ q.status = 200
    THEN {q.validation.nationName}
    ELSE IF q.route = "status" /\ q.status = 200
    THEN {q.entries[i].maskedKey : i \in 1..Len(q.entries)}
            \cup {q.entries[i].nationName : i \in 1..Len(q.entries)}
    ELSE {}

\* The plaintext secrets: the stored keys, decrypted, and the submitted key.
Secrets(q) ==
    {decryptApiKey(StoredKey(o)).plaintext : o \in {x \in Owners : StoredKey(x) # Null}}
        \cup (IF q.apiKey = Null THEN {} ELSE {q.apiKey})

\* C14: no text field of a link, unlink, validate or status answer is a
\* plaintext secret, and the masked key of every status entry has the length
\* of the stored secret, differs from it, agrees with it on at most the first
\* 4 and last 4 characters and is '*' everywhere else.
ResponsesHideSecrets ==
    \A r \in DOMAIN req :
        LET q == req[r]
        IN  /\ ResponseTexts(q) \cap Secrets(q) = {}
            /\ StatusAnswered(q) =>
                \A i \in 1..Len(q.entries) :
                    q.entries[i].maskedKey # Null =>
                        LET secret == decryptApiKey(q.entries[i].encrypted).plaintext
                            masked == q.entries[i].maskedKey
                        IN  /\ Len(secret) >= MinKeyLength
                            /\ Len(masked) = Len(secret) /\ masked # secret
                            /\ \A j \in 1..Len(masked) :
                                IF j <= 4 \/ j > Len(masked) - 4
                                THEN masked[j] = secret[j]
                                ELSE masked[j] = Star

\* C14 witness: a status answer carries the masked key of a stored secret.
StatusShowsMaskedKey ==
    \E r \in DOMAIN req :
        /\ StatusAnswered(req[r]) /\ req[r].status = 200
        /\ \E i \in 1..Len(req[r].entries) : req[r].entries[i].maskedKey # Null

\* The text contains the secret as a run of consecutive characters.
Contains(text, secret) ==
    /\ secret # Null
    /\ \E i \in 1..Len(text) :
            i + Len(secret) - 1 <= Len(text) /\ SubSeq(text, i, i + Len(secret) - 1) = secret

\* C15: no line logged while a request is served contains the secret the
\* request submitted, no stored key column holds it, and no audit record
\* carries it as its nation name.
NoPlaintextRetained ==
    \A r \in DOMAIN req :
        LET q == req[r]
        IN  /\ \A i \in 1..Len(q.logged) : ~Contains(q.logged[i], q.apiKey)
            /\ \A o \in Owners : StoredKey(o) = Null \/ StoredKey(o) # q.apiKey
            /\ \A i \in 1..Len(auditLog) : auditLog[i].nationName # q.apiKey

\* C16: encryptApiKey, under any non-empty master key, produces an encrypted
\* string that decryptApiKey, under the same master key, turns back into the
\* string that was encrypted.
RoundTrip ==
    (call.fn = "encryptApiKey" /\ call.masterKey # NoMasterKey)
        => /\ call.out.ok
           /\ decryptUnder(call.runtime, call.masterKey, call.out.data)
                = [ok |-> TRUE, plaintext |-> call.plaintext]

\* The same, where the crypto module provides the constructors the cipher calls.
RoundTripWhereProvided ==
    (call.fn = "encryptApiKey" /\ call.runtime = GcmRuntime) => RoundTrip

\* C17: decryptApiKey throws when a hex character of the ciphertext or of the
\* tag was changed, when the encrypted string has not exactly four fields,
\* when the master key is not the one it was encrypted under, or when the
\* master key is unset; whenever it returns, it returns the string that was
\* encrypted.
TamperedDecryptFails ==
    call.fn = "decryptApiKey"
        => /\ (\/ call.tamper # "none"
                \/ call.masterKey # call.sealedUnder
                \/ call.masterKey = NoMasterKey) => ~call.out.ok
           /\ call.out.ok => call.out.plaintext = call.plaintext

\* A ciphertext with one character changed, its tag and master key the right
\* ones, was refused by a cipher that does decrypt.
ChangedCiphertextRefused ==
    /\ call.fn = "decryptApiKey"
    /\ call.runtime = GcmRuntime
    /\ call.tamper = "ciphertext"
    /\ call.masterKey = call.sealedUnder
    /\ ~call.out.ok

\* C18: validatePnWApiKey answers 'Invalid API key format' for every string
\* shorter than 20 characters, the empty one included, and makes no request
\* to the upstream for it.
ShortKeyRejectedLocally ==
    (call.fn = "validatePnWApiKey" /\ Len(call.apiKey) < MinKeyLength)
        => /\ call.out = Invalid("Invalid API key format")
           /\ call.queries = 0

\* A string of 19 characters was validated while the upstream would have
\* accepted it.
NearKeyRejected ==
    /\ call.fn = "validatePnWApiKey"
    /\ call.apiKey = NearKey
    /\ call.response.t = "data" /\ call.response.nation
    /\ ~call.out.isValid

\* The error kind an answer of validatePnWApiKey stands for: the answer
\* carries a message only.
ErrorKind(error) ==
    CASE error = "Invalid API key format" -> "InvalidFormat"
      [] error = "Invalid or expired API key" -> "InvalidOrExpired"
      [] error \in {"API rate limit exceeded, please try again later",
                    "Rate limit exceeded, please try again later"} -> "UpstreamRateLimited"
      [] error \in {"Unable to connect to Politics and War API",
                    "Request timeout - Politics and War API is slow to respond",
                    "Politics and War API is currently unavailable"} -> "UpstreamUnavailable"
      [] OTHER -> "UnknownUpstreamError"

\* What an upstream answer is: an authorization rejection (in the body, or
\* HTTP 401), an exceeded quota (in the body, or HTTP 429), unavailability (no
\* response at all: the connection failed or timed out; or HTTP 5xx), some
\* other failure, or none.
FailureClass(response) ==
    CASE response.t = "data" /\ response.nation -> "none"
      [] response.t = "errors"
            /\ ("Invalid API key" \in response.message \/ "Unauthorized" \in response.message)
            -> "InvalidOrExpired"
      [] response.t = "errors" /\ "Rate limit exceeded" \in response.message
            -> "UpstreamRateLimited"
      [] response.t = "throw" /\ response.status = 401 -> "InvalidOrExpired"
      [] response.t = "throw" /\ response.status = 429 -> "UpstreamRateLimited"
      [] response.t = "throw" /\ (response.status = 0 \/ response.status >= 500)
            -> "UpstreamUnavailable"
      [] OTHER -> "UnknownUpstreamError"

\* C19: whatever failure the upstream answers with, validatePnWApiKey reports
\* the key as not valid, with the one error kind of that failure: an
\* authorization rejection as InvalidOrExpired, an exceeded quota as
\* UpstreamRateLimited, HTTP 5xx, a failed connection or a timeout as
\* UpstreamUnavailable, anything else as UnknownUpstreamError.
UpstreamFailureKinds ==
    (/\ call.fn = "validatePnWApiKey"
     /\ ~FormatRejected(call.apiKey)
     /\ FailureClass(call.response) # "none")
        => /\ ~call.out.isValid
           /\ ErrorKind(call.out.error) = FailureClass(call.response)

MaskedLong(c) == c.fn = "maskSensitiveData" /\ Len(c.data) > 2 * c.visibleChars
MaskedShort(c) == c.fn = "maskSensitiveData" /\ Len(c.data) <= 2 * c.visibleChars
\* The characters of the output between the kept ends.
MaskRun(c) == SubSeq(c.out, c.visibleChars + 1, Len(c.out) - c.visibleChars)
AllStars(text) == \A j \in 1..Len(text) : text[j] = Star

\* C21: for an input longer than 2 x visibleChars, maskSensitiveData returns
\* its first visibleChars characters, a run of at least 4 '*', and its last
\* visibleChars characters; the run is as long for one input as for the next,
\* whatever their lengths; "ABCDEFGHIJKLMNOP" gives "ABCD********MNOP".
MaskRunFixed ==
    [][MaskedLong(call') =>
        /\ Len(call'.out) >= 2 * call'.visibleChars + 4
        /\ SubSeq(call'.out, 1, call'.visibleChars)
            = SubSeq(call'.data, 1, call'.visibleChars)
        /\ SubSeq(call'.out, Len(call'.out) - call'.visibleChars + 1, Len(call'.out))
            = SubSeq(call'.data, Len(call'.data) - call'.visibleChars + 1, Len(call'.data))
        /\ AllStars(MaskRun(call'))
        /\ (call'.data = Letters(16) /\ call'.visibleChars = 4)
            => call'.out = <<65, 66, 67, 68>> \o Repeat(Star, 8) \o <<77, 78, 79, 80>>
        /\ (MaskedLong(call) /\ call.visibleChars = call'.visibleChars)
            => Len(MaskRun(call)) = Len(MaskRun(call'))]_vars

\* C22: for an input of at most 2 x visibleChars characters, the empty one
\* included, maskSensitiveData returns only '*', and as many for one input as
\* for the next, whatever their lengths.
MaskShortFixed ==
    [][MaskedShort(call') =>
        /\ Len(call'.out) > 0
        /\ AllStars(call'.out)
        /\ MaskedShort(call) => call.out = call'.out]_vars

\* The requests of an identifier passed to the next handler that arrived at
\* most windowMs before time t, t included.
PassedWithin(identifier, t) ==
    {k \in 1..Len(limiter.passed) :
        /\ limiter.passed[k].identifier = identifier
        /\ limiter.passed[k].arrived > t - RateLimitWindowMs
        /\ limiter.passed[k].arrived <= t}

\* C23: checkRateLimit passes on at most maxRequests requests of one
\* identifier out of those arriving within any windowMs, whether they are
\* served one after the other or concurrently; the others are answered 429.
WindowLimitEnforced ==
    \A identifier \in Identifiers : \A t \in 0..MaxTime :
        Cardinality(PassedWithin(identifier, t)) <= RateLimitMaxRequests

\* C24: a link request is answered 409 only when the submitted secret is the
\* stored credential of a user other than the caller: an owner linking again,
\* with a new secret or with the one already linked to them, is not refused
\* as linked to another account.
RelinkNotRefused ==
    \A r \in DOMAIN req :
        LET q == req[r]
        IN  (q.route = "link" /\ q.pc = "done" /\ q.status = 409) =>
                \E u \in DOMAIN user \ {q.caller} :
                    /\ user[u].pnwApiKey # Null
                    /\ decryptApiKey(user[u].pnwApiKey)
                        = [ok |-> TRUE, plaintext |-> q.apiKey]

\* C25: a POST /validate request on a well-formed secret has sent exactly one
\* query to the upstream when it is answered, and it is answered 200, or 400
\* when the upstream failed or refused the secret: never 500.
ValidateQueriesOnce ==
    \A r \in DOMAIN req :
        LET q == req[r]
        IN  (/\ q.route = "validate" /\ q.pc = "done"
             /\ Authenticated(q) /\ q.apiKey # Null
             /\ ~FormatRejected(q.apiKey)) =>
                /\ q.queries = 1
                /\ q.status \in {200, 400}

\* C26: a session invalidated by logout, logout-all or revoke is never active
\* again, and a request that arrives afterwards with a JWT of that session is
\* answered 401 by both endpoints that return the user's data.
InvalidatedStaysOut ==
    /\ \A i \in 1..Len(auth.userSession) :
            auth.userSession[i].sessionToken \in auth.invalidated
                => ~auth.userSession[i].isActive
    /\ (/\ auth.request.pc = "done"
        /\ auth.request.stale
        /\ auth.request.route \in {"me", "apiMe"}) => auth.request.status = 401

\* C30: a step of the auth routes changes a session row only by deactivating
\* an active session of the caller: logout only the session of the caller's
\* JWT, revoke only the session named in the path; a revoke answered 404
\* changes nothing, and it is answered 404 exactly when the named session is
\* not an active session of the caller.
SessionsConfined ==
    [][LET q == auth.request
       IN  /\ \A i \in 1..Len(auth.userSession) :
                auth'.userSession[i] # auth.userSession[i] =>
                    /\ q.pc = "handle"
                    /\ q.route \in {"logout", "logoutAll", "revoke"}
                    /\ auth.userSession[i].userId = q.jwt.userId
                    /\ auth.userSession[i].isActive
                    /\ auth'.userSession[i] = [auth.userSession[i] EXCEPT !.isActive = FALSE]
                    /\ q.route = "logout" => auth.userSession[i].sessionToken = q.jwt.sessionId
                    /\ q.route = "revoke" => auth.userSession[i].id = q.param
           /\ (q.pc = "handle" /\ q.route = "revoke" /\ auth'.request.status = 404) =>
                /\ auth'.userSession = auth.userSession
                /\ ~\E i \in 1..Len(auth.userSession) :
                        /\ auth.userSession[i].id = q.param
                        /\ auth.userSession[i].userId = q.jwt.userId
                        /\ auth.userSession[i].isActive
           /\ (q.pc = "handle" /\ q.route = "revoke" /\ auth'.request.status = 200) =>
                \E i \in 1..Len(auth.userSession) :
                    /\ auth.userSession[i].id = q.param
                    /\ auth.userSession[i].isActive
                    /\ ~auth'.userSession[i].isActive]_vars

\* A user asked to revoke an active session of another user and got 404, the
\* session still active.
RevokeOfAnothersRefused ==
    /\ auth.request.pc = "done"
    /\ auth.request.route = "revoke"
    /\ auth.request.status = 404
    /\ \E i \in 1..Len(auth.userSession) :
        /\ auth.userSession[i].id = auth.request.param
        /\ auth.userSession[i].userId # auth.request.jwt.userId
        /\ auth.userSession[i].isActive

\* A request of the frontend is awaiting its answer.
ClientPending ==
    \E c \in DOMAIN client.chains :
        client.chains[c] # <<>> /\ client.chains[c][Len(client.chains[c])].pc = "flight"

\* C27: when a component has made one request and the server has answered
\* 401 to every request it received, the frontend has stopped sending by the
\* time it has sent MaxSent requests: none is awaiting an answer.
ClientStops ==
    (client.asked = 1 /\ client.answers = {401} /\ client.sent >= MaxSent)
        => ~ClientPending

\* C28: DELETE /alliance/:slug sent without a body by a caller holding an
\* active grant for the alliance of the path is checked against that alliance:
\* it is answered 200 and has removed the credential (the store permitting),
\* not 400 or 403.
DeleteChecksPathAlliance ==
    \A r \in DOMAIN req :
        LET q == req[r]
        IN  (/\ q.route = "unlinkAlliance" /\ q.pc = "done"
             /\ Authenticated(q)
             /\ q.bodySlug = NoSlug
             /\ ActiveGrants(q) # {}
             /\ q.status # 500) =>
                /\ q.status = 200
                /\ q.wrote

\* The caller of q is no system admin and holds grants for the alliance q
\* names, none of them active.
OnlyInactiveGrant(q) ==
    /\ Authenticated(q) /\ ~IsSystemAdmin(q.caller)
    /\ q.allianceSlug \in alliance
    /\ \E m \in SessionManagers(q.caller) : allianceManager[m].allianceId = q.allianceSlug
    /\ ActiveGrants(q) = {}

\* C29: a caller whose only grant for an alliance is inactive is never allowed
\* to link or unlink that alliance's credential and writes nothing, and is
\* not given the details of that alliance when it is not public.
InactiveGrantDenied ==
    \A r \in DOMAIN req :
        LET q == req[r]
        IN  (q.pc = "done" /\ OnlyInactiveGrant(q)) =>
                /\ AllianceRequest(q) => (q.authz # "allow" /\ ~q.wrote /\ q.status # 200)
                /\ (q.route = "alliance" /\ q.allianceSlug \notin PublicAlliances)
                    => q.status # 200

====
